---- MODULE Spec2Model ----
(***************************************************************************)
(* A model of the daily-go client library: the request types and their     *)
(* JSON encoding (requests.go, models.go), the facade operations and the   *)
(* request dispatcher Client.request (daily.go).                           *)
(*                                                                         *)
(* Strings that the code builds by concatenation are sequences of tokens   *)
(* (a path is <<"rooms/", name>>), so that what is concatenated, and in    *)
(* which order, is visible.  Go values are tagged records; encoded JSON is *)
(* a tagged record too (an object is the sequence of its members in the    *)
(* order the encoder writes them).                                         *)
(***************************************************************************)
EXTENDS Integers, Sequences, FiniteSets, TLC

VARIABLES
    client,   \* the Client: BaseURL, HTTPClient, UserAgent
    pc,       \* per caller: "idle", "waiting" (inside HTTPClient.Do), "done"
    call,     \* per caller: the exported operation invoked and its arguments
    req,      \* per caller: the http.Request handed to the transport
    sent,     \* per caller: calls made to HTTPClient.Do by this invocation
    resp,     \* per caller: what HTTPClient.Do returned
    ret,      \* per caller: the error the operation returned
    sink,     \* per caller: the state of the result value passed to request
    mType,    \* SpecEncode: the request type being encoded
    mSet,     \* SpecEncode: the fields the caller set, with their values
    mOut      \* SpecEncode: the output of json.Marshal

vars == <<client, pc, call, req, sent, resp, ret, sink, mType, mSet, mOut>>

-----------------------------------------------------------------------------
(* Bounds                                                                  *)

\* Concurrent callers of one Client in SpecConc.
NumCallers == 2
\* Fields a caller sets in a request value passed to an operation.
MaxSetFields == 1
\* Fields a caller sets in a struct nested in such a request value.
MaxNestedFields == 0
\* The same two bounds for the request values of SpecEncode.
MarshalMaxFields == 2
MarshalMaxNested == 1

-----------------------------------------------------------------------------
(* Go values                                                               *)

NilInterface == [k |-> "nil"]
NilPtr == [k |-> "nilptr"]
GoString(s) == [k |-> "string", v |-> s]
GoInt(i) == [k |-> "int", v |-> i]
GoBool(b) == [k |-> "bool", v |-> b]
GoSlice(s) == [k |-> "slice", v |-> s]
Ptr(x) == [k |-> "ptr", v |-> x]
Struct(T, f) == [k |-> "struct", ty |-> T, v |-> f]

String(s) == Ptr(GoString(s))
Int64(i) == Ptr(GoInt(i))
Int32(i) == Ptr(GoInt(i))
Bool(b) == Ptr(GoBool(b))
True == Bool(TRUE)
False == Bool(FALSE)

Public == GoString("public")
Private == GoString("private")
Org == GoString("org")

Video == GoString("video")
Audio == GoString("audio")

EmptyFn == [x \in {} |-> x]

\* One struct field: its Go name, its key in JSON (the tag's name, or the Go
\* name when the field has no tag), whether the tag says omitempty, its type.
Fld(name, key, omit, type) ==
    [name |-> name, key |-> key, omitempty |-> omit, type |-> type]

ListRoomsRequest ==
    << Fld("Limit", "limit", TRUE, "int32"),
       Fld("EndingBefore", "ending_before", TRUE, "string"),
       Fld("EndingAfter", "ending_after", TRUE, "string") >>

CreateRoomRequest ==
    << Fld("Name", "name", TRUE, "*string"),
       Fld("Privacy", "privacy", TRUE, "RoomPrivacy"),
       Fld("Config", "properties", TRUE, "*RoomConfig") >>

UpdateRoomRequest ==
    << Fld("Privacy", "privacy", TRUE, "RoomPrivacy"),
       Fld("Config", "properties", TRUE, "*RoomConfig") >>

CreateMeetingTokenRequest ==
    << Fld("Properties", "properties", TRUE, "*MeetingToken") >>

StartRecordingRequest ==
    << Fld("Height", "height", FALSE, "int"),
       Fld("Width", "width", FALSE, "int"),
       Fld("Layout", "layout", FALSE, "Layout") >>

Layout ==
    << Fld("Preset", "preset", FALSE, "string") >>

\* The anonymous struct { Properties *Config } of SetDomainConfig.
SetDomainConfigBody ==
    << Fld("Properties", "Properties", FALSE, "*Config") >>

Config ==
    << Fld("RedirectOnMeetingExit", "redirect_on_meeting_exit", TRUE, "*string"),
       Fld("HideDailyBranding", "hide_daily_branding", TRUE, "*bool"),
       Fld("HIPPAA", "hipaa", TRUE, "*bool"),
       Fld("IntercomAutoRecord", "intercom_auto_record", TRUE, "*bool"),
       Fld("Lang", "lang", TRUE, "*string") >>

Permissions ==
    << Fld("CanSend", "canSend", TRUE, "*[]PermissionType"),
       Fld("HasPresence", "hasPresence", TRUE, "*bool") >>

RoomConfig ==
    << Fld("NotBefore", "nbf", TRUE, "*int64"),
       Fld("ExpiresAt", "exp", TRUE, "*int64"),
       Fld("StartVideoOff", "start_video_off", TRUE, "*bool"),
       Fld("StartAudioOff", "start_audio_off", TRUE, "*bool"),
       Fld("MaxParticipants", "max_participants", TRUE, "*int32"),
       Fld("AutoJoin", "autojoin", TRUE, "*bool"),
       Fld("EnableKnocking", "enable_knocking", TRUE, "*bool"),
       Fld("EnableScreenShare", "enable_screenshare", TRUE, "*bool"),
       Fld("EnableChat", "enable_chat", TRUE, "*bool"),
       Fld("OwnerOnlyBroadcast", "owner_only_broadcast", TRUE, "*bool"),
       Fld("EnableRecording", "enable_recording", TRUE, "*string"),
       Fld("EjectAtRoomExpiry", "eject_at_room_exp", TRUE, "*bool"),
       Fld("EjectAfterElapsed", "eject_after_elapsed", TRUE, "*int32"),
       Fld("Lang", "lang", TRUE, "*string"),
       Fld("MeetingJoinHook", "meeting_join_hook", TRUE, "*string"),
       Fld("SignalingType", "signaling_impl", TRUE, "*string"),
       Fld("SFUSwitchover", "sfu_switchover", TRUE, "*int32"),
       Fld("EnableMeshSFU", "enable_mesh_sfu", TRUE, "*bool"),
       Fld("EnableTerseLogging", "enable_terse_logging", TRUE, "*bool"),
       Fld("EnableHiddenParticipants", "enable_hidden_participants", TRUE, "*bool") >>

MeetingToken ==
    << Fld("NotBefore", "nbf", TRUE, "*int64"),
       Fld("ExpiresAt", "exp", TRUE, "*int64"),
       Fld("RoomName", "room_name", TRUE, "*string"),
       Fld("IsOwner", "is_owner", TRUE, "*bool"),
       Fld("UserName", "user_name", TRUE, "*string"),
       Fld("UserID", "user_id", TRUE, "*string"),
       Fld("EnableScreenShare", "enable_screenshare", TRUE, "*bool"),
       Fld("StartVideoOff", "start_video_off", TRUE, "*bool"),
       Fld("StartAudioOff", "start_audio_off", TRUE, "*bool"),
       Fld("EnableRecording", "enable_recording", TRUE, "*string"),
       Fld("StartCloudRecording", "start_cloud_recording", TRUE, "*bool"),
       Fld("CloseTabOnExit", "close_tab_on_exit", TRUE, "*bool"),
       Fld("EjectAtRoomExpiry", "eject_at_room_exp", TRUE, "*bool"),
       Fld("EjectAfterElapsed", "eject_after_elapsed", TRUE, "*int32"),
       Fld("Lang", "lang", TRUE, "*string"),
       Fld("Permissions", "permissions", TRUE, "*Permissions") >>

FieldsOf(T) ==
    CASE T = "ListRoomsRequest" -> ListRoomsRequest
      [] T = "CreateRoomRequest" -> CreateRoomRequest
      [] T = "UpdateRoomRequest" -> UpdateRoomRequest
      [] T = "CreateMeetingTokenRequest" -> CreateMeetingTokenRequest
      [] T = "StartRecordingRequest" -> StartRecordingRequest
      [] T = "Layout" -> Layout
      [] T = "SetDomainConfigBody" -> SetDomainConfigBody
      [] T = "Config" -> Config
      [] T = "Permissions" -> Permissions
      [] T = "RoomConfig" -> RoomConfig
      [] T = "MeetingToken" -> MeetingToken

\* The struct type a field type holds or points to ("" when it holds none).
StructOf(type) ==
    CASE type = "*RoomConfig" -> "RoomConfig"
      [] type = "*MeetingToken" -> "MeetingToken"
      [] type = "*Config" -> "Config"
      [] type = "*Permissions" -> "Permissions"
      [] type = "Layout" -> "Layout"
      [] OTHER -> ""

IsPointerType(type) ==
    type \in {"*string", "*bool", "*int64", "*int32", "*[]PermissionType",
              "*RoomConfig", "*MeetingToken", "*Config", "*Permissions"}

FieldNames(T) == {FieldsOf(T)[i].name : i \in 1..Len(FieldsOf(T))}
FieldNamed(T, n) == CHOOSE d \in {FieldsOf(T)[i] : i \in 1..Len(FieldsOf(T))} : d.name = n

-----------------------------------------------------------------------------
(* Request values as a caller builds them.  What the caller set is a       *)
(* function from the names of the fields it set to the value it gave each  *)
(* (for a field holding a struct, to what it set inside that struct); a    *)
(* field it did not set has Go's zero value of the field's type.           *)

RECURSIVE SubsetsUpTo(_, _)
SubsetsUpTo(S, k) ==
    IF k = 0 THEN {{}}
    ELSE LET P == SubsetsUpTo(S, k - 1)
         IN  P \cup {p \cup {x} : p \in P, x \in S}

RECURSIVE Build(_, _)
RECURSIVE ZeroValue(_)
ZeroValue(type) ==
    CASE IsPointerType(type) -> NilPtr
      [] type \in {"string", "RoomPrivacy"} -> GoString("")
      [] type \in {"int", "int32"} -> GoInt(0)
      [] type = "Layout" -> Build("Layout", EmptyFn)

Build(T, set) ==
    Struct(T, [n \in FieldNames(T) |->
        LET type == FieldNamed(T, n).type
        IN  IF n \notin DOMAIN set THEN ZeroValue(type)
            ELSE IF StructOf(type) = "" THEN set[n]
            ELSE IF IsPointerType(type) THEN Ptr(Build(StructOf(type), set[n]))
            ELSE Build(StructOf(type), set[n])])

RECURSIVE Choices(_, _)
RECURSIVE SetOver(_, _, _)
SetOver(T, S, kn) ==
    IF S = {} THEN {EmptyFn}
    ELSE LET n == CHOOSE x \in S : TRUE
         IN  {(n :> c) @@ r : c \in Choices(FieldNamed(T, n).type, kn),
                              r \in SetOver(T, S \ {n}, kn)}

\* What a caller may set in a value of struct type T: at most k of its fields,
\* and at most kn fields of each struct inside it.
Settings(T, k, kn) ==
    UNION {SetOver(T, S, kn) : S \in SubsetsUpTo(FieldNames(T), k)}

Choices(type, kn) ==
    CASE type = "*string" -> {String(""), String("a")}
      [] type = "*bool" -> {False, True}
      [] type = "*int64" -> {Int64(0), Int64(1)}
      [] type = "*int32" -> {Int32(0), Int32(1)}
      [] type = "string" -> {GoString(""), GoString("a")}
      [] type = "RoomPrivacy" -> {GoString(""), Public, Private, Org}
      [] type \in {"int", "int32"} -> {GoInt(0), GoInt(10)}
      [] type = "*[]PermissionType" -> {Ptr(GoSlice(<<>>)), Ptr(GoSlice(<<Video, Audio>>))}
      [] StructOf(type) # "" -> Settings(StructOf(type), kn, kn)

-----------------------------------------------------------------------------
(* encoding/json: Marshal                                                  *)

JNull == [j |-> "null"]
JObject(m) == [j |-> "object", m |-> m]
JArray(e) == [j |-> "array", e |-> e]
JScalar(t, v) == [j |-> t, v |-> v]

\* The kinds of value of the request types: all are kinds Marshal encodes.
EncodableKinds == {"nil", "nilptr", "ptr", "string", "int", "bool", "slice", "struct"}

\* encoding/json's isEmptyValue: what omitempty omits.
isEmptyValue(x) ==
    CASE x.k \in {"nil", "nilptr"} -> TRUE
      [] x.k = "string" -> x.v = ""
      [] x.k = "int" -> x.v = 0
      [] x.k = "bool" -> ~x.v
      [] x.k = "slice" -> Len(x.v) = 0
      [] OTHER -> FALSE

RECURSIVE Marshal(_)
Marshal(x) ==
    CASE x.k \in {"nil", "nilptr"} -> JNull
      [] x.k = "ptr" -> Marshal(x.v)
      [] x.k = "string" -> JScalar("string", x.v)
      [] x.k = "int" -> JScalar("number", x.v)
      [] x.k = "bool" -> JScalar("bool", x.v)
      [] x.k = "slice" -> JArray([i \in 1..Len(x.v) |-> Marshal(x.v[i])])
      [] x.k = "struct" ->
            LET kept == SelectSeq(FieldsOf(x.ty),
                           LAMBDA d : ~(d.omitempty /\ isEmptyValue(x.v[d.name])))
            IN  JObject([i \in 1..Len(kept) |->
                           [key |-> kept[i].key, val |-> Marshal(x.v[kept[i].name])]])

\* The request types the client sends.
RequestTypes ==
    {"ListRoomsRequest", "CreateRoomRequest", "UpdateRoomRequest",
     "CreateMeetingTokenRequest", "StartRecordingRequest", "SetDomainConfigBody"}

InitMarshal ==
    /\ mType \in RequestTypes
    /\ mSet \in Settings(mType, MarshalMaxFields, MarshalMaxNested)
    /\ mOut = [j |-> "pending"]

\* json.Marshal applied to the request value (daily.go, request).
MarshalRequest ==
    /\ mOut.j = "pending"
    /\ mOut' = Marshal(Build(mType, mSet))
    /\ UNCHANGED <<client, pc, call, req, sent, resp, ret, sink, mType, mSet>>


-----------------------------------------------------------------------------
(* The client (daily.go)                                                   *)

libraryVersion == "0.1"
userAgent == <<"daily-go/", libraryVersion>>
defaultBaseURL == [origin |-> "https://api.daily.co", path |-> <<"/v1/">>]

\* WithAuth(accessToken) applied to a client c.
WithAuth(accessToken, c) ==
    [c EXCEPT !.HTTPClient = [type |-> "authClient",
                              httpClient |-> c.HTTPClient,
                              accessToken |-> accessToken]]

RECURSIVE ApplyOptions(_, _)
ApplyOptions(opts, c) ==
    IF opts = <<>> THEN c
    ELSE ApplyOptions(Tail(opts), WithAuth(Head(opts), c))

\* New(opts...): opts is the sequence of access tokens of its WithAuth options.
New(opts) ==
    ApplyOptions(opts,
        [HTTPClient |-> [type |-> "http.Client", timeoutSeconds |-> 5],
         BaseURL |-> defaultBaseURL,
         UserAgent |-> userAgent])

\* Tokens that begin with "/" and tokens that end with "/".
LeadingSlash ==
    {"/v1/", "/v1/recordings", "/recordings/start", "/recordings/stop", "/access-link"}
TrailingSlash == {"/v1/", "rooms/", "recordings/", "meeting-tokens/"}

\* Tokens url.Parse rejects: an invalid percent escape.
InvalidEscape == {"%zz"}

urlParseLenient(path) == [err |-> "", path |-> path]

\* url.Parse of a request path.
urlParse(path) ==
    IF \E i \in 1..Len(path) : path[i] \in InvalidEscape
    THEN [err |-> "invalid URL escape", path |-> <<>>]
    ELSE [err |-> "", path |-> path]

\* The path up to and including its last "/".
RECURSIVE Dir(_)
Dir(p) ==
    IF p = <<>> \/ p[Len(p)] \in TrailingSlash THEN p
    ELSE Dir(SubSeq(p, 1, Len(p) - 1))

\* URL.ResolveReference: an empty reference is the base, one that begins with
\* "/" replaces the base's path, any other replaces the base path's last segment.
ResolveReference(base, rel) ==
    IF rel = <<>> THEN base
    ELSE IF Head(rel) \in LeadingSlash THEN [base EXCEPT !.path = rel]
    ELSE [base EXCEPT !.path = Dir(base.path) \o rel]

ResolvedInPlace(base, rel) == ResolveReference(base, rel)

\* c.BaseURL after u := c.BaseURL.ResolveReference(rel): the receiver is left alone.
BaseURLAfterResolve(base, rel) == base

\* Methods http.NewRequest accepts.
ValidMethods == {"GET", "HEAD", "POST", "PUT", "PATCH", "DELETE", "CONNECT", "OPTIONS", "TRACE"}

NoError == [type |-> "nil"]
Errorf(text) == [type |-> "errorString", text |-> text]
Error(Message, StatusCode, Details, RawDetails) ==
    [type |-> "Error", Message |-> Message, StatusCode |-> StatusCode,
     Details |-> Details, RawDetails |-> RawDetails]

NoRequest == [method |-> ""]
NoResponse == [err |-> "none"]
NoCall == [op |-> ""]
NoSink == [kind |-> ""]

\* request, up to the call of c.HTTPClient.Do: the error returned before it,
\* or the request handed to Do; and c.BaseURL afterwards.
requestBuild(c, method, path, data) ==
    LET rel == urlParse(path)
        u == ResolveReference(c.BaseURL, rel.path)
        body == IF data.k # "nil"
                THEN [present |-> TRUE, bytes |-> Marshal(data)]
                ELSE [present |-> FALSE]
    IN  IF rel.err # ""
        THEN [err |-> Errorf(<<"daily: failed to parse request path: ", rel.err>>),
              req |-> NoRequest, BaseURL |-> c.BaseURL]
        ELSE IF data.k # "nil" /\ data.k \notin EncodableKinds
        THEN [err |-> Errorf(<<"daily: failed to parse request data: ", "unsupported type">>),
              req |-> NoRequest, BaseURL |-> BaseURLAfterResolve(c.BaseURL, rel.path)]
        ELSE IF method \notin ValidMethods
        THEN [err |-> Errorf(<<"daily: failed to build request: ", "invalid method">>),
              req |-> NoRequest, BaseURL |-> BaseURLAfterResolve(c.BaseURL, rel.path)]
        ELSE [err |-> NoError,
              req |-> [method |-> method, url |-> u, body |-> body,
                       UserAgent |-> c.UserAgent],
              BaseURL |-> BaseURLAfterResolve(c.BaseURL, rel.path)]

-----------------------------------------------------------------------------
(* encoding/json: Unmarshal of a response body                             *)

DetailBody == "{\"error\":\"not-found\",\"info\":\"no such room\"}"

\* What a response body is as JSON text.
JSONKind(b) ==
    CASE b \in {"{}", DetailBody} -> "object"
      [] b = "null" -> "null"
      [] b = "[]" -> "array"
      [] OTHER -> "invalid"

\* json.Unmarshal(b, v) for the result values the operations pass (a pointer to
\* a struct, a pointer to a map, a map) and for *ErrorDetails: the error, and v
\* afterwards.
Unmarshal(b, v) ==
    CASE JSONKind(b) = "invalid" -> [err |-> "SyntaxError", v |-> v]
      [] JSONKind(b) # "invalid" /\ v.kind = "map" ->
            [err |-> "InvalidUnmarshalError", v |-> v]
      [] JSONKind(b) = "null" /\ v.kind # "map" ->
            [err |-> "", v |-> IF v.kind = "*map" THEN [v EXCEPT !.val = <<"nil">>] ELSE v]
      [] JSONKind(b) = "array" /\ v.kind # "map" ->
            [err |-> "UnmarshalTypeError", v |-> v]
      [] JSONKind(b) = "object" /\ v.kind # "map" ->
            [err |-> "", v |-> [v EXCEPT !.val = <<"decoded", b>>]]

\* A result value as an operation creates it.
NewSink(kind, type) == [type |-> type, val |-> <<"zero">>, kind |-> kind]

-----------------------------------------------------------------------------
(* request, from the return of c.HTTPClient.Do                             *)

statusMessageNoRateLimit(StatusCode) ==
    CASE StatusCode = 400 -> "ErrBadRequest"
      [] StatusCode = 401 -> "ErrUnauthorized"
      [] StatusCode = 500 -> "ErrInternal"
      [] OTHER -> "ErrUnexpected"

\* The switch on resp.StatusCode.
statusMessage(StatusCode) ==
    CASE StatusCode = 400 -> "ErrBadRequest"
      [] StatusCode = 401 -> "ErrUnauthorized"
      [] StatusCode = 429 -> "ErrTooManyRequests"
      [] StatusCode = 500 -> "ErrInternal"
      [] OTHER -> "ErrUnexpected"

transportErrorAsUnexpected(err) ==
    Error(<<"ErrUnexpected">>, 0, <<"nil">>, "")

\* The error returned when Do fails.
transportError(err) == Errorf(<<"daily: request failed: ", err>>)

\* The Error returned for a status other than 200.
statusError(StatusCode, respBody) ==
    LET d == Unmarshal(respBody, NewSink("*struct", "ErrorDetails"))
    IN  Error(<<statusMessage(StatusCode)>>, StatusCode,
              IF d.err # "" THEN <<"nil">> ELSE d.v.val, respBody)

decodeResultLenient(StatusCode, respBody, result) ==
    [err |-> NoError, result |-> Unmarshal(respBody, result).v]

\* The decoding of a 200 response into result.
decodeResult(StatusCode, respBody, result) ==
    LET d == Unmarshal(respBody, result)
    IN  IF d.err # ""
        THEN [err |-> Error(<<"ErrParseError", ": ", d.err>>, StatusCode, <<"nil">>, respBody),
              result |-> d.v]
        ELSE [err |-> NoError, result |-> d.v]

requestFinishDecodeFirst(r, result) ==
    IF r.err # "" THEN [err |-> transportError(r.err), result |-> result]
    ELSE LET d == decodeResult(r.StatusCode, r.Body, result)
         IN  IF r.StatusCode # 200
             THEN [err |-> statusError(r.StatusCode, r.Body), result |-> d.result]
             ELSE d

\* request after Do returned r: the error returned, and result afterwards.
requestFinish(r, result) ==
    IF r.err # "" THEN [err |-> transportError(r.err), result |-> result]
    ELSE IF r.StatusCode # 200
    THEN [err |-> statusError(r.StatusCode, r.Body), result |-> result]
    ELSE decodeResult(r.StatusCode, r.Body, result)


-----------------------------------------------------------------------------
(* Inputs                                                                  *)

Callers == 1..NumCallers

\* Room names, meeting tokens and recording ids a caller passes.
Names == {"standup", "%zz"}

GetRecordingsParams ==
    [Limit : {0, 10}, EndingBefore : {"", "rec-9"},
     StartingAfter : {"", "rec-1"}, RoomName : {"", "standup"}]

\* What c.HTTPClient.Do returns: an error, or a response whose body has been
\* read by ioutil.ReadAll.
Responses(statuses, bodies) ==
    [err : {""}, StatusCode : statuses, Body : bodies]
TransportFailures(errs) ==
    [err : errs, StatusCode : {0}, Body : {""}]

\* The inputs of a specification: names, the bounds on request values, the
\* list parameters, and the transport's results.
FullDomain ==
    [names |-> Names, k |-> MaxSetFields, kn |-> MaxNestedFields,
     params |-> GetRecordingsParams,
     results |-> Responses({200, 201, 400, 401, 404, 429, 500},
                           {"{}", DetailBody, "null", "[]", "<html>", ""})
                 \cup TransportFailures({"connection refused", "context canceled",
                                         "context deadline exceeded"})]

ConcDomain ==
    [names |-> Names, k |-> 0, kn |-> 0,
     params |-> {p \in GetRecordingsParams : p.EndingBefore = "" /\ p.StartingAfter = ""},
     results |-> Responses({200, 400, 503}, {"{}", "<html>"})
                 \cup TransportFailures({"context canceled"})]

\* The values of a parameter of type *T.
Pointers(T, D) == {NilPtr} \cup {Ptr(Build(T, a)) : a \in Settings(T, D.k, D.kn)}

-----------------------------------------------------------------------------
(* Operations                                                              *)

\* A call c.request(ctx, method, path, data, result) made by operation op with
\* arguments args, up to its return or to its call of c.HTTPClient.Do.
Request(c, op, args, method, path, data, result) ==
    /\ pc[c] = "idle"
    /\ LET b == requestBuild(client, method, path, data)
       IN  /\ client' = [client EXCEPT !.BaseURL = b.BaseURL]
           /\ call' = [call EXCEPT ![c] =
                  [op |-> op, args |-> args, method |-> method, path |-> path,
                   data |-> data, result |-> result]]
           /\ sink' = [sink EXCEPT ![c] = result]
           /\ req' = [req EXCEPT ![c] = b.req]
           /\ IF b.err = NoError
              THEN /\ pc' = [pc EXCEPT ![c] = "waiting"]
                   /\ sent' = [sent EXCEPT ![c] = 1]
                   /\ ret' = ret
              ELSE /\ pc' = [pc EXCEPT ![c] = "done"]
                   /\ sent' = [sent EXCEPT ![c] = 0]
                   /\ ret' = [ret EXCEPT ![c] = b.err]
    /\ UNCHANGED <<resp, mType, mSet, mOut>>

Args(name, request, params) == [name |-> name, req |-> request, params |-> params]
NoParams == [Limit |-> 0, EndingBefore |-> "", StartingAfter |-> "", RoomName |-> ""]

GetDomainConfig(c) ==
    /\ pc[c] = "idle"
    /\ Request(c, "GetDomainConfig", Args("", NilInterface, NoParams),
               "GET", <<>>, NilInterface, NewSink("*struct", "DomainConfig"))

SetDomainConfig(c, D) ==
    /\ pc[c] = "idle"
    /\ \E r \in Pointers("Config", D) :
           Request(c, "SetDomainConfig", Args("", r, NoParams),
                   "POST", <<>>, Struct("SetDomainConfigBody", [Properties |-> r]),
                   NewSink("*struct", "DomainConfig"))

ListRooms(c, D) ==
    /\ pc[c] = "idle"
    /\ \E r \in Pointers("ListRoomsRequest", D) :
           Request(c, "ListRooms", Args("", r, NoParams),
                   "GET", <<"rooms">>,
                   IF r.k = "nilptr" THEN Ptr(Build("ListRoomsRequest", EmptyFn)) ELSE r,
                   NewSink("*struct", "ListRoomsResponse"))

CreateRoom(c, D) ==
    /\ pc[c] = "idle"
    /\ \E r \in Pointers("CreateRoomRequest", D) :
           Request(c, "CreateRoom", Args("", r, NoParams),
                   "POST", <<"rooms">>, r, NewSink("*struct", "CreateRoomResponse"))

GetRoom(c, D) ==
    /\ pc[c] = "idle"
    /\ \E name \in D.names :
           Request(c, "GetRoom", Args(name, NilInterface, NoParams),
                   "GET", <<"rooms/", name>>, NilInterface,
                   NewSink("*struct", "GetRoomResponse"))

UpdateRoom(c, D) ==
    /\ pc[c] = "idle"
    /\ \E name \in D.names, r \in Pointers("UpdateRoomRequest", D) :
           Request(c, "UpdateRoom", Args(name, r, NoParams),
                   "POST", <<"rooms/", name>>, r, NewSink("*struct", "UpdateRoomResponse"))

DeleteRoom(c, D) ==
    /\ pc[c] = "idle"
    /\ \E name \in D.names :
           Request(c, "DeleteRoom", Args(name, NilInterface, NoParams),
                   "DELETE", <<"rooms/", name>>, NilInterface, NewSink("*map", "map"))

CreateMeetingToken(c, D) ==
    /\ pc[c] = "idle"
    /\ \E r \in Pointers("CreateMeetingTokenRequest", D) :
           Request(c, "CreateMeetingToken", Args("", r, NoParams),
                   "POST", <<"meeting-tokens">>, r,
                   NewSink("*struct", "CreateMeetingTokenResponse"))

GetMeetingToken(c, D) ==
    /\ pc[c] = "idle"
    /\ \E token \in D.names :
           Request(c, "GetMeetingToken", Args(token, NilInterface, NoParams),
                   "GET", <<"meeting-tokens/", token>>, NilInterface,
                   NewSink("*struct", "GetMeetingTokenResponse"))

\* path + "?" + params[0], then "&" + param for each of the others.
RECURSIVE generateUrlWithQueryParams(_, _)
generateUrlWithQueryParams(path, params) ==
    IF Len(params) > 0
    THEN IF Len(params) = 1 THEN path \o <<"?">> \o params[1]
         ELSE generateUrlWithQueryParams(path, SubSeq(params, 1, Len(params) - 1))
                  \o <<"&">> \o params[Len(params)]
    ELSE path

\* The params slice GetRecordings builds from p.
recordingsParams(p) ==
    (IF p.Limit > 0 THEN << <<"limit=", ToString(p.Limit)>> >> ELSE <<>>)
    \o (IF p.EndingBefore # "" THEN << <<"&", "ending_before=", p.EndingBefore>> >> ELSE <<>>)
    \o (IF p.StartingAfter # "" THEN << <<"&", "starting_after=", p.StartingAfter>> >> ELSE <<>>)
    \o (IF p.RoomName # "" THEN << <<"room_name=", p.RoomName>> >> ELSE <<>>)

GetRecordings(c, D) ==
    /\ pc[c] = "idle"
    /\ \E p \in D.params :
           Request(c, "GetRecordings", Args("", NilInterface, p),
                   "GET", generateUrlWithQueryParams(<<"/v1/recordings">>, recordingsParams(p)),
                   NilInterface, NewSink("*struct", "GetRecordingResponse"))

StartRecording(c, D) ==
    /\ pc[c] = "idle"
    /\ \E name \in D.names, r \in Pointers("StartRecordingRequest", D) :
           Request(c, "StartRecording", Args(name, r, NoParams),
                   "POST", <<"rooms/", name, "/recordings/start">>, r,
                   NewSink("*struct", "StartRecordingResponse"))

StopRecording(c, D) ==
    /\ pc[c] = "idle"
    /\ \E name \in D.names :
           Request(c, "StopRecording", Args(name, NilInterface, NoParams),
                   "POST", <<"rooms/", name, "/recordings/stop">>, NilInterface,
                   NewSink("*map", "map"))

DeleteRecording(c, D) ==
    /\ pc[c] = "idle"
    /\ \E recordingID \in D.names :
           Request(c, "DeleteRecording", Args(recordingID, NilInterface, NoParams),
                   "DELETE", <<"recordings/", recordingID>>, NilInterface,
                   NewSink("map", "map"))

GetRecordingLink(c, D) ==
    /\ pc[c] = "idle"
    /\ \E recordingID \in D.names :
           Request(c, "GetRecordingLink", Args(recordingID, NilInterface, NoParams),
                   "GET", <<"recordings/", recordingID, "/access-link">>, NilInterface,
                   NewSink("*struct", "GetRecordingLinkResponse"))

\* c.HTTPClient.Do returns to caller c, and request runs to its return.
DoReturns(c, D) ==
    /\ pc[c] = "waiting"
    /\ \E r \in D.results :
          LET f == requestFinish(r, sink[c])
          IN  /\ resp' = [resp EXCEPT ![c] = r]
              /\ ret' = [ret EXCEPT ![c] = f.err]
              /\ sink' = [sink EXCEPT ![c] = f.result]
    /\ pc' = [pc EXCEPT ![c] = "done"]
    /\ UNCHANGED <<client, call, req, sent, mType, mSet, mOut>>

\* The operation has returned to caller c, who may call again.
Returned(c) ==
    /\ pc[c] = "done"
    /\ pc' = [pc EXCEPT ![c] = "idle"]
    /\ call' = [call EXCEPT ![c] = NoCall]
    /\ req' = [req EXCEPT ![c] = NoRequest]
    /\ sent' = [sent EXCEPT ![c] = 0]
    /\ resp' = [resp EXCEPT ![c] = NoResponse]
    /\ ret' = [ret EXCEPT ![c] = NoError]
    /\ sink' = [sink EXCEPT ![c] = NoSink]
    /\ UNCHANGED <<client, mType, mSet, mOut>>

-----------------------------------------------------------------------------
(* Specifications                                                          *)

InitCallers ==
    /\ pc = [c \in Callers |-> "idle"]
    /\ call = [c \in Callers |-> NoCall]
    /\ req = [c \in Callers |-> NoRequest]
    /\ sent = [c \in Callers |-> 0]
    /\ resp = [c \in Callers |-> NoResponse]
    /\ ret = [c \in Callers |-> NoError]
    /\ sink = [c \in Callers |-> NoSink]

NoMarshal ==
    /\ mType = ""
    /\ mSet = EmptyFn
    /\ mOut = [j |-> "none"]

Init ==
    /\ client \in {New(<<>>), New(<<"api-key">>)}
    /\ InitCallers
    /\ NoMarshal

\* One caller, every exported operation, the full inputs.
Next ==
    \E c \in {1} :
        \/ GetDomainConfig(c)
        \/ SetDomainConfig(c, FullDomain)
        \/ ListRooms(c, FullDomain)
        \/ CreateRoom(c, FullDomain)
        \/ GetRoom(c, FullDomain)
        \/ UpdateRoom(c, FullDomain)
        \/ DeleteRoom(c, FullDomain)
        \/ CreateMeetingToken(c, FullDomain)
        \/ GetMeetingToken(c, FullDomain)
        \/ GetRecordings(c, FullDomain)
        \/ StartRecording(c, FullDomain)
        \/ StopRecording(c, FullDomain)
        \/ DeleteRecording(c, FullDomain)
        \/ GetRecordingLink(c, FullDomain)
        \/ DoReturns(c, FullDomain)
        \/ Returned(c)

Spec == Init /\ [][Next]_vars

\* Concurrent callers of one client.
NextConc ==
    \E c \in Callers :
        \/ GetDomainConfig(c)
        \/ CreateRoom(c, ConcDomain)
        \/ GetRoom(c, ConcDomain)
        \/ GetRecordings(c, ConcDomain)
        \/ DeleteRecording(c, ConcDomain)
        \/ DoReturns(c, ConcDomain)
        \/ Returned(c)

SpecConc == Init /\ [][NextConc]_vars

\* json.Marshal of one request value.
InitEncode ==
    /\ client = New(<<>>)
    /\ InitCallers
    /\ InitMarshal

NextEncode == MarshalRequest

SpecEncode == InitEncode /\ [][NextEncode]_vars


-----------------------------------------------------------------------------
(* Properties                                                              *)

Active(c) == pc[c] # "idle"
Done(c) == pc[c] = "done"
\* Do returned a response (not an error) to caller c.
GotResponse(c) == Done(c) /\ resp[c].err = ""
\* Do returned an error to caller c.
TransportFailed(c) == Done(c) /\ resp[c].err \notin {"", "none"}
\* request returned to caller c before calling Do.
FailedBeforeDo(c) == Done(c) /\ resp[c] = NoResponse

StatusCategories ==
    {"ErrBadRequest", "ErrUnauthorized", "ErrTooManyRequests", "ErrInternal", "ErrUnexpected"}

CategoryOf(status) ==
    IF status = 400 THEN "ErrBadRequest"
    ELSE IF status = 401 THEN "ErrUnauthorized"
    ELSE IF status = 429 THEN "ErrTooManyRequests"
    ELSE IF status = 500 THEN "ErrInternal"
    ELSE "ErrUnexpected"

\* C1: for every response with a status other than 200, request returns an
\* Error whose category is the one the status alone determines (400 bad
\* request, 401 unauthorized, 429 rate limited, 500 internal, any other
\* unexpected), whose StatusCode is the status and whose RawDetails is the
\* body; Details is nil exactly when the body does not parse as detail.
C1_StatusError ==
    \A c \in Callers :
        (GotResponse(c) /\ resp[c].StatusCode # 200) =>
            /\ ret[c].type = "Error"
            /\ ret[c].Message = <<CategoryOf(resp[c].StatusCode)>>
            /\ ret[c].StatusCode = resp[c].StatusCode
            /\ ret[c].RawDetails = resp[c].Body
            /\ (ret[c].Details = <<"nil">>) <=> (JSONKind(resp[c].Body) \in {"invalid", "array"})

C1_Witness ==
    \E c \in Callers :
        /\ GotResponse(c) /\ resp[c].StatusCode = 429 /\ resp[c].Body = "<html>"
        /\ ret[c].Message = <<"ErrTooManyRequests">>
        /\ ret[c].Details = <<"nil">>

\* The body of caller c's 200 response does not decode into its result value.
DecodeFails(c) ==
    /\ GotResponse(c) /\ resp[c].StatusCode = 200
    /\ \/ JSONKind(resp[c].Body) \in {"invalid", "array"}
       \/ call[c].result.kind = "map"

\* C2: when the status is 200 and the body fails to decode into the result,
\* request returns a parse-error Error carrying status 200 and the raw body:
\* never nil, and never one of the status categories.
C2_DecodeError ==
    \A c \in Callers :
        DecodeFails(c) =>
            /\ ret[c].type = "Error"
            /\ ret[c].Message[1] = "ErrParseError"
            /\ ret[c].Message[1] \notin StatusCategories
            /\ ret[c].StatusCode = 200
            /\ ret[c].RawDetails = resp[c].Body

C2_Witness ==
    \E c \in Callers :
        /\ DecodeFails(c) /\ resp[c].Body = "<html>"
        /\ ret[c].type = "Error" /\ ret[c].Message[1] = "ErrParseError"

\* C3: for every exported operation, a 200 response whose body is a JSON
\* object (the empty object, say) makes the operation return no error.
C3_ObjectIsSuccess ==
    \A c \in Callers :
        (GotResponse(c) /\ resp[c].StatusCode = 200 /\ JSONKind(resp[c].Body) = "object")
            => ret[c] = NoError

\* C4: an operation invoked with an absent request value (no data, or a nil
\* request) hands the transport a request with no body.
C4_AbsentHasNoBody ==
    \A c \in Callers :
        (Active(c) /\ req[c] # NoRequest /\ call[c].args.req.k \in {"nil", "nilptr"})
            => ~req[c].body.present

\* The fields of T the caller set, in the order of the struct.
SetFields(T, set) == SelectSeq(FieldsOf(T), LAMBDA d : d.name \in DOMAIN set)

\* json is an object with exactly the keys of the fields set, and so is every
\* struct set inside it.
RECURSIVE OmissionLaw(_, _, _)
OmissionLaw(T, set, json) ==
    /\ json.j = "object"
    /\ Len(json.m) = Len(SetFields(T, set))
    /\ \A i \in 1..Len(SetFields(T, set)) :
          LET d == SetFields(T, set)[i]
          IN  /\ i <= Len(json.m)
              /\ json.m[i].key = d.key
              /\ StructOf(d.type) # "" =>
                    OmissionLaw(StructOf(d.type), set[d.name], json.m[i].val)

\* C5: in the encoding of every request type, a field the caller left unset
\* is omitted and a field the caller set, to its zero value too, is emitted.
C5_UnsetOmittedSetEmitted ==
    mOut.j \notin {"none", "pending"} => OmissionLaw(mType, mSet, mOut)

RECURSIVE JoinPairs(_)
JoinPairs(pairs) ==
    IF Len(pairs) = 1 THEN pairs[1]
    ELSE JoinPairs(SubSeq(pairs, 1, Len(pairs) - 1)) \o <<"&">> \o pairs[Len(pairs)]

\* The key=value pairs of the parameters set in p, in one fixed order.
PairsOf(p) ==
    (IF p.Limit > 0 THEN << <<"limit=", ToString(p.Limit)>> >> ELSE <<>>)
    \o (IF p.EndingBefore # "" THEN << <<"ending_before=", p.EndingBefore>> >> ELSE <<>>)
    \o (IF p.StartingAfter # "" THEN << <<"starting_after=", p.StartingAfter>> >> ELSE <<>>)
    \o (IF p.RoomName # "" THEN << <<"room_name=", p.RoomName>> >> ELSE <<>>)

\* C6: the path of GetRecordings is the base path, then, when a parameter is
\* set, "?" and the set parameters as key=value pairs separated by exactly one
\* "&", none before the first; with no parameter set there is no "?".
C6_QueryString ==
    \A c \in Callers :
        (Active(c) /\ call[c].op = "GetRecordings") =>
            call[c].path =
                IF PairsOf(call[c].args.params) = <<>> THEN <<"/v1/recordings">>
                ELSE <<"/v1/recordings", "?">> \o JoinPairs(PairsOf(call[c].args.params))

\* The path of caller c's call is one url.Parse accepts.
PathParses(c) == \A i \in 1..Len(call[c].path) : call[c].path[i] # "%zz"

BuildErrors ==
    {"daily: failed to parse request path: ", "daily: failed to parse request data: ",
     "daily: failed to build request: "}

\* C7: an invocation calls the transport at most once: once when the path
\* resolves and the body encodes, never when either fails (the error is
\* returned before anything is sent), and no outcome causes a second call.
C7_OneTransportCall ==
    \A c \in Callers :
        Active(c) =>
            /\ sent[c] <= 1
            /\ sent[c] = (IF PathParses(c) THEN 1 ELSE 0)
            /\ sent[c] = 0 =>
                  /\ FailedBeforeDo(c) /\ req[c] = NoRequest
                  /\ ret[c].type = "errorString" /\ ret[c].text[1] \in BuildErrors

C7_Witness ==
    \E c \in Callers :
        /\ FailedBeforeDo(c) /\ sent[c] = 0 /\ ~PathParses(c)
        /\ ret[c].text[1] = "daily: failed to parse request path: "

\* C8: request writes to the result value only after a response with status
\* 200: on a build error, a transport failure and any other status the result
\* value is as the caller passed it.
C8_ResultUntouched ==
    \A c \in Callers :
        /\ pc[c] = "waiting" => sink[c] = call[c].result
        /\ (FailedBeforeDo(c) \/ TransportFailed(c)
              \/ (GotResponse(c) /\ resp[c].StatusCode # 200))
              => sink[c] = call[c].result

C8_Witness ==
    \E c \in Callers :
        /\ GotResponse(c) /\ resp[c].StatusCode = 400 /\ resp[c].Body = DetailBody
        /\ call[c].result.kind = "*struct"
        /\ sink[c] = call[c].result

IsTransportError(e) == e.type = "errorString" /\ e.text[1] = "daily: request failed: "

\* C9: when the transport call fails, the operation returns the transport
\* error, which no other outcome returns (not a status error, not the decode
\* error, not a build error); it is never nil, and the call is not repeated.
C9_TransportError ==
    \A c \in Callers :
        /\ TransportFailed(c) =>
              /\ IsTransportError(ret[c]) /\ ret[c].text[2] = resp[c].err
              /\ sent[c] = 1
        /\ (Done(c) /\ ~TransportFailed(c)) => ~IsTransportError(ret[c])

C9_Witness ==
    \E c \in Callers :
        /\ TransportFailed(c) /\ resp[c].err = "context canceled"
        /\ ret[c] = Errorf(<<"daily: request failed: ", "context canceled">>)

\* C10: under any interleaving of concurrent calls and after any sequence of
\* calls, failed ones too, the client's configuration is what New returned;
\* every request is built from that configuration and its own call's path, and
\* two calls with the same arguments and the same response end the same.
C10_ClientUnchanged ==
    /\ [][client' = client]_vars
    /\ [](/\ client.BaseURL = defaultBaseURL
          /\ client.UserAgent = userAgent
          /\ \A c \in Callers :
                (Active(c) /\ req[c] # NoRequest) =>
                    /\ req[c].url = ResolveReference(defaultBaseURL, call[c].path)
                    /\ req[c].UserAgent = userAgent
          /\ \A c, d \in Callers :
                (Done(c) /\ Done(d) /\ call[c] = call[d] /\ resp[c] = resp[d]) =>
                    (ret[c] = ret[d] /\ sink[c] = sink[d] /\ req[c] = req[d]))

C10_Witness ==
    \E c, d \in Callers :
        /\ c # d
        /\ Done(c) /\ ret[c] # NoError
        /\ Done(d) /\ ret[d] = NoError /\ sent[d] = 1
        /\ call[c].op = call[d].op


====
